---- MODULE Spec2Model ----
(***************************************************************************)
(* The chess rules engine of chess3d (src/chess.c, src/components.c): the  *)
(* 0x88 board component, the legality oracle, make/undo, the king-safety   *)
(* filter, terminal detection and the press handler that drives them.      *)
(***************************************************************************)
EXTENDS Integers, Sequences, FiniteSets, TLC

(* ----------------------------- encodings ------------------------------- *)

PIECE_PAWN == 1
PIECE_KNIGHT == 2
PIECE_KING == 3
PIECE_BISHOP == 5
PIECE_ROOK == 6
PIECE_QUEEN == 7
PIECE_WHITE == 0
PIECE_BLACK == 8

MOVE_TYPE_MOVE == 0
MOVE_TYPE_CAPTURE == 1
MOVE_TYPE_CASTLE == 2

STATE_PLAYING == 0
STATE_WHITE_WIN_BY_CHECKMATE == 1
STATE_BLACK_WIN_BY_CHECKMATE == 2
STATE_DRAW_BY_STALEMATE == 3

\* entity_t id UINT64_MAX: "no entity"; entities of the model are 1..NumPieces
NoEntity == 0
NumPieces == 32

Squares == 0..127

\* piece & MASK_TYPE, piece & MASK_COLOR, piece & MASK_SLIDE
TypeOf(p) == p % 8
ColorOf(p) == (p \div 8) * 8
Slides(p) == (p \div 4) % 2 = 1
\* sq & MASK_ROW
RowOf(sq) == ((sq \div 16) % 8) * 16

Abs(x) == IF x < 0 THEN -x ELSE x

\* C integer division and remainder (truncation toward zero)
CDiv(a, b) == IF (a < 0) = (b < 0) THEN Abs(a) \div Abs(b) ELSE -(Abs(a) \div Abs(b))
CRem(a, b) == a - b * CDiv(a, b)

\* (v >> k) & 1 on the castle bits
Bit(v, k) == (v \div (2 ^ k)) % 2

\* (to & 0x88) != 0 on a two's complement int: bit 3 or bit 7 set
OffBoard(to) == (to \div 8) % 2 = 1 \/ (to \div 128) % 2 = 1

Opponent(c) == IF c = PIECE_WHITE THEN PIECE_BLACK ELSE PIECE_WHITE

(* --------------------------- initial component -------------------------- *)

BackRank == <<PIECE_ROOK, PIECE_KNIGHT, PIECE_BISHOP, PIECE_KING,
              PIECE_QUEEN, PIECE_BISHOP, PIECE_KNIGHT, PIECE_ROOK>>

\* faulty variant of InitialIndices: the eight cells to the right of each
\* occupied row repeat the row
InitialIndicesRepeated ==
    [i \in Squares |->
        IF i \div 16 = 0 THEN BackRank[(i % 8) + 1] + PIECE_BLACK
        ELSE IF i \div 16 = 1 THEN PIECE_PAWN + PIECE_BLACK
        ELSE IF i \div 16 = 6 THEN PIECE_PAWN + PIECE_WHITE
        ELSE IF i \div 16 = 7 THEN BackRank[(i % 8) + 1] + PIECE_WHITE
        ELSE 0]

\* board_component_t default_data.indices
InitialIndices ==
    [i \in Squares |->
        IF i % 16 >= 8 THEN 0
        ELSE IF i \div 16 = 0 THEN BackRank[(i % 16) + 1] + PIECE_BLACK
        ELSE IF i \div 16 = 1 THEN PIECE_PAWN + PIECE_BLACK
        ELSE IF i \div 16 = 6 THEN PIECE_PAWN + PIECE_WHITE
        ELSE IF i \div 16 = 7 THEN BackRank[(i % 16) + 1] + PIECE_WHITE
        ELSE 0]

\* board_component_t default_data (unnamed fields are zero)
InitialBoard ==
    [ selected_piece |-> NoEntity,
      legal_move_indices |-> [k \in 0..63 |-> FALSE],
      indices |-> InitialIndices,
      current_player |-> PIECE_WHITE,
      castle_bits |-> 15,
      num_white_captures |-> 0,
      num_black_captures |-> 0,
      en_passant_pos |-> 0,
      move_count |-> 0,
      game_state |-> STATE_PLAYING ]

\* create_board: the 32 piece entities in creation order, add_piece(mask, x, z)
InitialPieces ==
    [e \in 1..NumPieces |->
        IF e <= 8 THEN [mask |-> BackRank[e] + PIECE_WHITE, board_position |-> (e - 1) + 7 * 16]
        ELSE IF e <= 16 THEN [mask |-> BackRank[e - 8] + PIECE_BLACK, board_position |-> (e - 9)]
        ELSE IF (e - 17) % 2 = 0
             THEN [mask |-> PIECE_PAWN + PIECE_WHITE, board_position |-> ((e - 17) \div 2) + 6 * 16]
             ELSE [mask |-> PIECE_PAWN + PIECE_BLACK, board_position |-> ((e - 17) \div 2) + 1 * 16]]

(* ------------------------------ the oracle ------------------------------ *)

\* board->indices[i]. The only index outside 0..127 the handler can pass is
\* the board_position -1 of a captured piece: indices[-1] is the byte before
\* the array in board_component_t, which is legal_move_indices[63].
IndexAt(board, i) ==
    IF i = -1 THEN (IF board.legal_move_indices[63] THEN 1 ELSE 0)
    ELSE board.indices[i]

\* faulty variant of PathClear: the loop is left out
PathClearAlways(board, from, to) == TRUE

\* faulty variant of PathClear: the loop starts on `from` itself, which is
\* never empty
PathClearFromSource(board, from, to) == FALSE

\* the slide loop of is_legal_move: every square strictly between is empty
PathClear(board, from, to) ==
    LET dir == to - from
        step0 == IF dir % 17 = 0 THEN 17
                 ELSE IF dir % 15 = 0 THEN 15
                 ELSE IF dir % 16 = 0 THEN 16
                 ELSE 1
        step == IF CDiv(dir, step0) < 0 THEN -step0 ELSE step0
        n == CDiv(to - from, step)
    IN \A i \in 1..(n - 1) : board.indices[from + i * step] = 0

RECURSIVE is_legal_move(_, _, _)
is_legal_move(board, from, to) ==
    IF OffBoard(to) THEN FALSE
    ELSE
    LET piece_to_move == IndexAt(board, from) IN
    IF piece_to_move = 0 THEN FALSE
    ELSE IF ColorOf(piece_to_move) # board.current_player THEN FALSE
    ELSE
    LET piece_to_capture == board.indices[to] IN
    IF piece_to_capture # 0 /\ ColorOf(piece_to_capture) = board.current_player THEN FALSE
    ELSE
    LET diff == Abs(from - to)
        kind == TypeOf(piece_to_move)
        pdir == IF from - to > 0 THEN 0 ELSE 8
        row == RowOf(from)
        ep == board.en_passant_pos
        kdir == IF from - to > 0 THEN 1 ELSE 0
        can_move ==
            CASE kind = PIECE_PAWN ->
                    /\ ColorOf(piece_to_move) = pdir
                    /\ \/ (diff = 16 /\ piece_to_capture = 0)
                       \/ ((diff = 15 \/ diff = 17) /\ piece_to_capture # 0)
                       \/ (/\ diff = 32
                           /\ (row = 96 \/ row = 16)
                           /\ piece_to_capture = 0
                           /\ board.indices[from + (IF pdir # 0 THEN 16 ELSE -16)] = 0)
                       \/ (/\ ep # 0
                           /\ piece_to_capture = 0
                           /\ \/ (diff = (IF pdir # 0 THEN 15 ELSE 17) /\ from - 1 = ep)
                              \/ (diff = (IF pdir # 0 THEN 17 ELSE 15) /\ from + 1 = ep))
              [] kind = PIECE_KNIGHT ->
                    diff = 14 \/ diff = 18 \/ diff = 31 \/ diff = 33
              [] kind = PIECE_KING ->
                    \/ (/\ diff = 2
                        /\ Bit(board.castle_bits, board.current_player \div 4 + kdir) # 0
                        /\ is_legal_move(board, from + (IF kdir # 0 THEN -3 ELSE 4),
                                                from + (IF kdir # 0 THEN -1 ELSE 1)))
                    \/ (diff = 1 \/ diff = 16 \/ diff = 17 \/ diff = 15)
              [] kind = PIECE_BISHOP ->
                    diff % 15 = 0 \/ diff % 17 = 0
              [] kind = PIECE_ROOK ->
                    from % 16 = to % 16 \/ from \div 16 = to \div 16
              [] kind = PIECE_QUEEN ->
                    \/ diff % 15 = 0 \/ diff % 17 = 0
                    \/ from % 16 = to % 16 \/ from \div 16 = to \div 16
              [] OTHER -> FALSE
    IN IF can_move /\ Slides(piece_to_move)
       THEN PathClear(board, from, to)
       ELSE can_move

(* ------------------------------- make / undo ---------------------------- *)

\* faulty variant of ClearBit: the bit is flipped (^=) instead of cleared
ClearBitFlip(v, k) == IF Bit(v, k) = 1 THEN v - 2 ^ k ELSE v + 2 ^ k

\* v & ~(1 << k) on the castle bits
ClearBit(v, k) == IF Bit(v, k) = 1 THEN v - 2 ^ k ELSE v

\* faulty variant of en_passant_after: every pawn move records its target
en_passant_after_any(mover, from, to) ==
    IF TypeOf(mover) = PIECE_PAWN THEN to ELSE 0

\* en_passant_pos as perform_move leaves it: the target of a pawn's two-rank
\* advance, 0 after every other move
en_passant_after(mover, from, to) ==
    IF TypeOf(mover) = PIECE_PAWN /\ Abs(from - to) = 32 THEN to ELSE 0

\* faulty variant of en_passant_capture_pos: the captured pawn is taken from
\* the destination square
en_passant_capture_pos_to(board, to) == to

\* `pos` of perform_move's en-passant branch: the square the captured pawn
\* is removed from
en_passant_capture_pos(board, to) == board.en_passant_pos

perform_move(board, from, to) ==
    LET cp == board.current_player
        side == cp \div 4
        capture == board.indices[to]
        mover == board.indices[from]
        isKing == TypeOf(mover) = PIECE_KING
        castle == isKing /\ Abs(from - to) = 2
        rook_from == from + (IF from > to THEN -3 ELSE 4)
        rook_to == from + (IF from > to THEN -1 ELSE 1)
        \* King was moved: both bits of the mover; castling relocates the rook
        cb1 == IF isKing THEN ClearBit(ClearBit(board.castle_bits, side), side + 1)
               ELSE board.castle_bits
        ind1 == IF castle
                THEN [board.indices EXCEPT ![rook_to] = board.indices[rook_from],
                                           ![rook_from] = 0]
                ELSE board.indices
        \* Revoke castling rights for own side
        cb2 == IF TypeOf(ind1[from]) = PIECE_ROOK
               THEN IF from = 0 \/ from = 112 THEN ClearBit(cb1, side + 0)
                    ELSE IF from = 7 \/ from = 119 THEN ClearBit(cb1, side + 1)
                    ELSE cb1
               ELSE cb1
        \* Revoke castling rights for opponent side
        oside == Opponent(cp) \div 4
        cb3 == IF TypeOf(ind1[to]) = PIECE_ROOK
               THEN IF to = 0 \/ to = 112 THEN ClearBit(cb2, oside + 0)
                    ELSE IF to = 7 \/ to = 119 THEN ClearBit(cb2, oside + 1)
                    ELSE cb2
               ELSE cb2
        isPawn == TypeOf(ind1[from]) = PIECE_PAWN
        diff == Abs(from - to)
        enPassant == isPawn /\ diff # 32 /\ (diff = 17 \/ diff = 15) /\ capture = 0
        pos == en_passant_capture_pos(board, to)
        ep1 == en_passant_after(ind1[from], from, to)
        ind2 == IF enPassant THEN [ind1 EXCEPT ![pos] = 0] ELSE ind1
        promote == isPawn /\ (RowOf(to) = 0 \/ RowOf(to) = 112)
        ind3 == IF promote THEN [ind2 EXCEPT ![from] = PIECE_QUEEN + ColorOf(ind2[from])]
                ELSE ind2
        ind4 == [ind3 EXCEPT ![to] = ind3[from]]
        ind5 == [ind4 EXCEPT ![from] = 0]
        move_info ==
            [ move_type |-> IF enPassant THEN MOVE_TYPE_CAPTURE
                            ELSE IF castle THEN MOVE_TYPE_CASTLE
                            ELSE IF capture # 0 THEN MOVE_TYPE_CAPTURE
                            ELSE MOVE_TYPE_MOVE,
              capture |-> IF enPassant THEN ind1[pos] ELSE capture,
              capture_pos |-> IF enPassant THEN pos ELSE to,
              rook_pos |-> IF castle THEN rook_from ELSE 0,
              last_castle_bits |-> board.castle_bits,
              last_en_passant_pos |-> board.en_passant_pos,
              promotion |-> IF promote THEN PIECE_QUEEN ELSE 0 ]
    IN [ board |-> [board EXCEPT !.indices = ind5,
                                 !.castle_bits = cb3,
                                 !.en_passant_pos = ep1,
                                 !.current_player = Opponent(cp),
                                 !.move_count = board.move_count + 1],
         info |-> move_info ]

\* faulty variant of revert_move: --board->move_count is left out
revert_move_keeps_count(board, from, to, info) ==
    LET i1 == [board.indices EXCEPT ![from] = board.indices[to]]
        i2 == [i1 EXCEPT ![to] = 0]
        i3 == [i2 EXCEPT ![info.capture_pos] = info.capture]
        rook_from == from + (IF from > to THEN -3 ELSE 4)
        rook_to == from + (IF from > to THEN -1 ELSE 1)
        i4 == IF info.move_type = MOVE_TYPE_CASTLE
              THEN [[i3 EXCEPT ![rook_from] = i3[rook_to]] EXCEPT ![rook_to] = 0]
              ELSE i3
        i5 == IF info.promotion # 0
              THEN [i4 EXCEPT ![from] = PIECE_PAWN + ColorOf(i4[from])]
              ELSE i4
    IN [board EXCEPT !.indices = i5,
                     !.castle_bits = info.last_castle_bits,
                     !.en_passant_pos = info.last_en_passant_pos,
                     !.current_player = Opponent(board.current_player)]

revert_move(board, from, to, info) ==
    LET i1 == [board.indices EXCEPT ![from] = board.indices[to]]
        i2 == [i1 EXCEPT ![to] = 0]
        i3 == [i2 EXCEPT ![info.capture_pos] = info.capture]
        rook_from == from + (IF from > to THEN -3 ELSE 4)
        rook_to == from + (IF from > to THEN -1 ELSE 1)
        i4 == IF info.move_type = MOVE_TYPE_CASTLE
              THEN [[i3 EXCEPT ![rook_from] = i3[rook_to]] EXCEPT ![rook_to] = 0]
              ELSE i3
        i5 == IF info.promotion # 0
              THEN [i4 EXCEPT ![from] = PIECE_PAWN + ColorOf(i4[from])]
              ELSE i4
    IN [board EXCEPT !.indices = i5,
                     !.castle_bits = info.last_castle_bits,
                     !.en_passant_pos = info.last_en_passant_pos,
                     !.current_player = Opponent(board.current_player),
                     !.move_count = board.move_count - 1]

(* ----------------------------- king safety ------------------------------ *)

\* the first loop of is_piece_attacked: the first cell holding `piece`, else 0
FindPiece(board, piece) ==
    LET S == {i \in Squares : board.indices[i] = piece}
    IN IF S = {} THEN 0 ELSE CHOOSE i \in S : \A j \in S : i <= j

\* faulty variant of is_piece_attacked: no piece is ever found attacked
is_piece_attacked_never(board, piece) == FALSE

is_piece_attacked(board, piece) ==
    LET pos == FindPiece(board, piece)
    IN \E i \in Squares : is_legal_move(board, i, pos)

\* faulty variant of is_checked_after_move: the move is never simulated and
\* never found to leave the king attacked
is_checked_after_move_never(board, from, to) == [checked |-> FALSE, board |-> board]

\* faulty variant of is_checked_after_move: a two-square king move is also
\* refused when the king is attacked on its origin before the move
is_checked_after_move_or_before(board, from, to) ==
    LET Simulated(pm) ==
            [ checked |->
                  \/ is_piece_attacked(pm.board,
                         PIECE_KING + Opponent(pm.board.current_player))
                  \/ /\ TypeOf(board.indices[from]) = PIECE_KING
                     /\ Abs(from - to) = 2
                     /\ is_piece_attacked(
                            [board EXCEPT !.current_player = Opponent(board.current_player)],
                            PIECE_KING + board.current_player),
              board |-> revert_move(pm.board, from, to, pm.info) ]
    IN Simulated(perform_move(board, from, to))

\* returns the flag and the board perform_move/revert_move leave behind
is_checked_after_move(board, from, to) ==
    LET Simulated(pm) ==
            [ checked |-> is_piece_attacked(pm.board,
                              PIECE_KING + Opponent(pm.board.current_player)),
              board |-> revert_move(pm.board, from, to, pm.info) ]
    IN Simulated(perform_move(board, from, to))

(* --------------------------- terminal detection ------------------------- *)

\* The loops of the engine run over index ranges lo..hi in increasing order;
\* the range is split in halves, left half first, so that the order of the
\* iterations is the code's (the test on the left half's result only makes
\* the evaluation compute it before the right half starts).

\* the inner loop of check_end_condition_reached over `to`, for one `from`:
\* acc = [board, n]; every accepted pair runs perform_move/revert_move on the
\* board the next pair reads
RECURSIVE CountTo(_, _, _, _)
CountTo(acc, from, lo, hi) ==
    IF lo = hi
    THEN IF is_legal_move(acc.board, from, lo)
         THEN LET Counted(r) ==
                      [board |-> r.board, n |-> acc.n + (IF r.checked THEN 0 ELSE 1)]
              IN Counted(is_checked_after_move(acc.board, from, lo))
         ELSE acc
    ELSE LET mid == (lo + hi) \div 2
             Rest(left) == IF left.n >= 0 THEN CountTo(left, from, mid + 1, hi) ELSE left
         IN Rest(CountTo(acc, from, lo, mid))

\* the outer loop over `from`. A cell that is empty or holds a piece of the
\* other colour makes is_legal_move return false for every `to` before it
\* reads anything else, so its inner loop is skipped.
RECURSIVE CountFrom(_, _, _)
CountFrom(acc, lo, hi) ==
    IF lo = hi
    THEN IF acc.board.indices[lo] = 0
            \/ ColorOf(acc.board.indices[lo]) # acc.board.current_player
         THEN acc
         ELSE CountTo(acc, lo, 0, 127)
    ELSE LET mid == (lo + hi) \div 2
             Rest(left) == IF left.n >= 0 THEN CountFrom(left, mid + 1, hi) ELSE left
         IN Rest(CountFrom(acc, lo, mid))

\* faulty variant of InCheck: the king is never found attacked
InCheckNever(board) == FALSE

\* `checked` of check_end_condition_reached: with the player switched
\* temporarily, the king of the side to move is attacked
InCheck(board) ==
    is_piece_attacked([board EXCEPT !.current_player = Opponent(board.current_player)],
                      PIECE_KING + board.current_player)

check_end_condition_reached(board) ==
    LET player == board.current_player
        checked == InCheck(board)
        Ended(counted) ==
            [counted.board EXCEPT !.game_state =
                IF counted.n = 0
                THEN IF checked
                     THEN IF player = PIECE_WHITE THEN STATE_BLACK_WIN_BY_CHECKMATE
                                                  ELSE STATE_WHITE_WIN_BY_CHECKMATE
                     ELSE STATE_DRAW_BY_STALEMATE
                ELSE STATE_PLAYING]
    IN Ended(CountFrom([board |-> board, n |-> 0], 0, 127))

(* ------------------------- selection / highlight ------------------------ *)

RECURSIVE HighlightFrom(_, _, _, _)
HighlightFrom(board, from, lo, hi) ==
    IF lo = hi
    THEN LET to == (lo % 8) + (lo \div 8) * 16
         IN IF is_legal_move(board, from, to)
            THEN LET Marked(r) == [r.board EXCEPT !.legal_move_indices[lo] = ~r.checked]
                 IN Marked(is_checked_after_move(board, from, to))
            ELSE [board EXCEPT !.legal_move_indices[lo] = FALSE]
    ELSE LET mid == (lo + hi) \div 2
             Rest(left) ==
                 IF left.move_count >= 0 THEN HighlightFrom(left, from, mid + 1, hi) ELSE left
         IN Rest(HighlightFrom(board, from, lo, mid))

\* faulty variant of update_legal_move_indices_for_piece: the highlight is
\* left as it was
update_legal_move_indices_skipped(board, piece) == board

update_legal_move_indices_for_piece(board, piece) ==
    HighlightFrom(board, piece.board_position, 0, 63)

(* ----------------------------- press handler ---------------------------- *)

\* the search loop of try_move_selected_piece: the first piece entity, in
\* component order, whose board_position is piece_pos (NoEntity: none)
FindEntity(pieces, piece_pos) ==
    LET S == {e \in DOMAIN pieces : pieces[e].board_position = piece_pos}
    IN IF S = {} THEN NoEntity ELSE CHOOSE e \in S : \A f \in S : e <= f

\* piece->board_position = x + z * 16 (move_piece), -1 (move_piece_offboard)
move_piece(pieces, e, x, z) ==
    IF e = NoEntity THEN pieces
    ELSE [pieces EXCEPT ![e].board_position = x + z * 16]

move_piece_offboard(pieces, e) ==
    IF e = NoEntity THEN pieces
    ELSE [pieces EXCEPT ![e].board_position = -1]

NoInfo ==
    [ move_type |-> MOVE_TYPE_MOVE, capture |-> 0, capture_pos |-> 0, rook_pos |-> 0,
      last_castle_bits |-> 0, last_en_passant_pos |-> 0, promotion |-> 0 ]

\* The world is [board, pieces, last]: the board component, the piece
\* components, and a record of the last applied move: from, to, its
\* move_info_t, and `made`, the board as perform_move left it, which is the
\* board check_end_condition_reached receives.
\* faulty variant of move_rejected: a rejected target clears the selection
move_rejected_deselects(w, b) == [w EXCEPT !.board = [b EXCEPT !.selected_piece = NoEntity]]

\* the early return of try_move_selected_piece after the test of the move:
\* b is the board the test left
move_rejected(w, b) == [w EXCEPT !.board = b]

try_move_selected_piece(w, x, z) ==
    LET board == w.board
        selected == board.selected_piece
    IN IF selected = NoEntity
       THEN w
       ELSE
       LET piece == w.pieces[selected]
           from == piece.board_position
           to == x + z * 16
           \* the accepted move: pm is what perform_move returned, ended the
           \* board check_end_condition_reached left
           Moved(pm, ended) ==
               LET info == pm.info
                   \* promotion: the selected entity is destroyed and a new piece
                   \* is added on `from` (the model reuses the entity's slot)
                   p1 == IF info.promotion # 0
                         THEN [w.pieces EXCEPT ![selected] =
                                  [mask |-> info.promotion + ColorOf(piece.mask),
                                   board_position |-> CRem(from, 16) + CDiv(from, 16) * 16]]
                         ELSE w.pieces
                   piece_pos == IF info.move_type = MOVE_TYPE_CAPTURE THEN info.capture_pos
                                ELSE info.rook_pos
                   e == FindEntity(p1, piece_pos)
                   is_white == ColorOf(piece.mask) = PIECE_WHITE
                   p2 == IF info.move_type = MOVE_TYPE_CASTLE
                         THEN move_piece(p1, e, x + (IF from > to THEN 1 ELSE -1), z)
                         ELSE IF info.move_type = MOVE_TYPE_CAPTURE
                         THEN move_piece_offboard(p1, e)
                         ELSE p1
                   nb == IF info.move_type = MOVE_TYPE_CAPTURE /\ is_white
                         THEN (ended.num_black_captures + 1) % 256
                         ELSE ended.num_black_captures
                   nw == IF info.move_type = MOVE_TYPE_CAPTURE /\ ~is_white
                         THEN (ended.num_white_captures + 1) % 256
                         ELSE ended.num_white_captures
                   p3 == move_piece(p2, selected, x, z)
               IN [ board |-> [ended EXCEPT !.num_black_captures = nb,
                                            !.num_white_captures = nw,
                                            !.selected_piece = NoEntity,
                                            !.legal_move_indices = [k \in 0..63 |-> FALSE]],
                    pieces |-> p3,
                    last |-> [op |-> "move", from |-> from, to |-> to, info |-> info,
                              made |-> pm.board] ]
           Performed(pm) == Moved(pm, check_end_condition_reached(pm.board))
           \* is_legal_move(...) && !is_checked_after_move(...)
           Tested(test) ==
               IF test.checked THEN move_rejected(w, test.board)
               ELSE Performed(perform_move(test.board, from, to))
       IN IF is_legal_move(board, from, to)
          THEN Tested(is_checked_after_move(board, from, to))
          ELSE move_rejected(w, board)

\* the test of try_move_selected_piece: the selected piece may move to `to`
Accepts(w, to) ==
    /\ w.board.selected_piece # NoEntity
    /\ LET from == w.pieces[w.board.selected_piece].board_position
       IN /\ is_legal_move(w.board, from, to)
          /\ ~is_checked_after_move(w.board, from, to).checked

\* on_entity_pressed, the entity has a piece component
PiecePressed(w, e) ==
    LET piece == w.pieces[e]
        is_opponent == ColorOf(piece.mask) # w.board.current_player
    IN IF is_opponent /\ w.board.selected_piece # NoEntity
       THEN try_move_selected_piece(w, CRem(piece.board_position, 16),
                                       CDiv(piece.board_position, 16))
       ELSE IF ~is_opponent
       THEN [w EXCEPT !.board = update_legal_move_indices_for_piece(
                                    [w.board EXCEPT !.selected_piece = e], piece)]
       ELSE w

\* on_entity_pressed, the entity has a tile component
TilePressed(w, x, z) == try_move_selected_piece(w, x, z)



(* ------------------------------ the machine ----------------------------- *)

VARIABLES board, pieces, last, steps

vars == <<board, pieces, last, steps>>

\* presses that change the state, explored beyond the starting position (a
\* press of a side whose king is attacked is not counted)
MaxPress == 2

World == [board |-> board, pieces |-> pieces, last |-> last]

InitialWorld ==
    [ board |-> InitialBoard, pieces |-> InitialPieces,
      last |-> [op |-> "init", from |-> 0, to |-> 0, info |-> NoInfo,
                made |-> InitialBoard] ]

\* square of row z (0 = Black's back rank) and file x
SQ(z, x) == z * 16 + x

\* the move from row z1, file x1 to row z2, file x2
Mv(z1, x1, z2, x2) == <<SQ(z1, x1), SQ(z2, x2)>>

\* One move of a game played through the handler: press the piece standing
\* on m[1], then the tile m[2].
PlayMove(w, m) ==
    LET e == FindEntity(w.pieces, m[1])
        w1 == IF e = NoEntity THEN w ELSE PiecePressed(w, e)
    IN TilePressed(w1, m[2] % 16, m[2] \div 16)

RECURSIVE Replay(_, _)
Replay(w, moves) ==
    IF moves = <<>> THEN w
    ELSE LET Rest(w1) == IF w1.board.move_count >= 0 THEN Replay(w1, Tail(moves)) ELSE w1
         IN Rest(PlayMove(w, Head(moves)))

(* Games played from the initial position; the exploration starts from the  *)
(* positions they reach.                                                    *)

\* White's queen gives check on the diagonal of Black's king
ToCheck == << Mv(6,3,5,3), Mv(1,2,2,2), Mv(7,4,3,0) >>

\* White's knight and bishop have left: castling toward file 0 is possible
ToCastle ==
    << Mv(7,1,5,2), Mv(0,1,2,2), Mv(6,1,5,1), Mv(2,2,0,1), Mv(7,2,6,1), Mv(0,1,2,2) >>

\* Black's pawn has just advanced two ranks next to a white pawn
ToEnPassant == << Mv(6,3,4,3), Mv(1,0,2,0), Mv(4,3,3,3), Mv(1,4,3,4) >>

\* Black's bishop can capture the bishop next to White's king while the
\* rook on file 0 has a free path to that square
ToBishopTakes ==
    << Mv(6,3,4,3), Mv(1,6,2,6), Mv(7,1,5,2), Mv(0,5,2,7), Mv(6,7,5,7) >>

\* White's rook has left its corner on file 0 and the king can move
ToRookThenKing ==
    << Mv(6,3,4,3), Mv(0,1,2,2), Mv(6,0,4,0), Mv(2,2,0,1), Mv(7,0,6,0), Mv(0,1,2,2) >>

\* one move before the fool's mate
ToMate == << Mv(6,2,5,2), Mv(1,3,3,3), Mv(6,1,4,1) >>

\* a white pawn stands one capture before Black's back rank
ToPromotion ==
    << Mv(6,0,4,0), Mv(1,1,3,1), Mv(4,0,3,1), Mv(0,6,2,5), Mv(3,1,2,1), Mv(2,5,0,6),
       Mv(2,1,1,0), Mv(0,6,2,5) >>

\* a white pawn stands one capture before the square of Black's queen, next
\* to Black's king; the squares between that king and the rook on file 7 are
\* empty
ToPromotionByKing ==
    << Mv(6,6,4,6), Mv(1,5,3,5), Mv(4,6,3,6), Mv(0,6,2,5), Mv(3,6,2,5), Mv(1,6,2,6),
       Mv(2,5,1,5), Mv(0,5,2,7) >>

\* White can castle toward file 0 while Black's queen on 0x40 attacks the
\* king on 0x73
ToCastleOutOfCheck ==
    << Mv(6,2,4,2), Mv(1,3,2,3), Mv(6,3,5,3), Mv(0,1,2,2), Mv(7,2,6,3), Mv(2,2,0,1),
       Mv(7,1,5,0), Mv(0,4,4,0) >>

\* White can castle toward file 0 while Black's bishop on 0x27 attacks
\* 0x72, the square the king crosses
ToCastleThroughAttack ==
    << Mv(6,3,4,3), Mv(1,6,2,6), Mv(7,1,5,0), Mv(0,5,2,7), Mv(7,2,6,3), Mv(0,1,2,2),
       Mv(6,3,5,2), Mv(2,2,0,1) >>

\* White's rook on file 0 can leave its corner
ToRookLift == << Mv(6,0,4,0), Mv(1,0,3,0) >>

\* White's rook of file 0 has travelled to the corner on file 7 of Black's
\* back rank
ToRookTour ==
    << Mv(6,0,4,0), Mv(0,1,2,2), Mv(7,0,5,0), Mv(2,2,0,1), Mv(5,0,5,7), Mv(0,1,2,2),
       Mv(5,7,1,7), Mv(2,2,0,1), Mv(1,7,0,7), Mv(0,1,2,2) >>

\* White's rook of file 7 has left, the queen stands on its corner and the
\* squares between king and corner are empty
ToQueenCorner ==
    << Mv(6,7,4,7), Mv(0,1,2,2), Mv(7,7,5,7), Mv(2,2,0,1), Mv(7,6,5,5), Mv(0,1,2,2),
       Mv(6,6,5,6), Mv(2,2,0,1), Mv(7,5,6,6), Mv(0,1,2,2), Mv(7,4,7,7), Mv(2,2,0,1) >>

\* Black's bishop has captured the bishop on 0x72: White is to move and one
\* of White's piece entities is off the board
ToBishopTaken == ToBishopTakes \o << Mv(2,7,7,2) >>

\* White's pawn has captured en passant: Black is to move and one of Black's
\* piece entities is off the board
ToPawnTaken == ToEnPassant \o << Mv(3,3,2,4) >>

\* Black's bishop stands next to White's king, guarded by a knight; Black's
\* other knight can give check
ToKnightCheck ==
    << Mv(6,3,4,3), Mv(1,4,2,4), Mv(7,2,2,7), Mv(0,6,2,7), Mv(6,5,5,5), Mv(2,7,3,5),
       Mv(6,6,5,6), Mv(0,1,2,2), Mv(7,6,5,7), Mv(2,2,4,1), Mv(6,0,5,0), Mv(4,1,5,3),
       Mv(5,0,4,0), Mv(0,5,4,1), Mv(6,1,5,1), Mv(4,1,7,4), Mv(7,5,6,6) >>

Openings ==
    { <<>>, ToCheck, ToCastle, ToEnPassant, ToBishopTakes, ToRookThenKing, ToMate }

InitFrom(games) ==
    /\ \E g \in games : \E w \in {Replay(InitialWorld, g)} :
          /\ w.board.move_count = Len(g)
          /\ board = w.board
          /\ pieces = w.pieces
          /\ last = w.last
    /\ steps = 0

Init == InitFrom(Openings)

\* a press is explored while fewer than MaxPress counted presses were made
Budget == steps < MaxPress

Apply(w) ==
    /\ board' = w.board
    /\ pieces' = w.pieces
    /\ last' = w.last
    /\ steps' = IF w # World /\ ~InCheck(board) THEN steps + 1 ELSE steps

\* on_entity_pressed(e) for a piece entity and for a tile entity
PressPiece(e) ==
    /\ Budget
    /\ \E w \in {PiecePressed(World, e)} : Apply(w)

PressTile(x, z) ==
    /\ Budget
    /\ \E w \in {TilePressed(World, x, z)} : Apply(w)

Next ==
    \/ \E e \in 1..NumPieces : PressPiece(e)
    \/ \E x \in 0..7, z \in 0..7 : PressTile(x, z)

\* the fool's mate has been played: White is checkmated
ToFoolsMate == ToMate \o << Mv(0,4,4,0) >>

\* Black's knight has given check from 0x54 and the handler has declared
\* checkmate
ToKnightMate == ToKnightCheck \o << Mv(3,5,5,4) >>

Spec == Init /\ [][Next]_vars

\* the same machine started from the positions of other games
SpecRoundTrip == InitFrom({ToBishopTakes, ToPromotion}) /\ [][Next]_vars

SpecTerminal == InitFrom({ToKnightCheck, ToMate}) /\ [][Next]_vars

SpecRooks == InitFrom({ToRookLift, ToRookTour}) /\ [][Next]_vars

SpecCastling == InitFrom({ToQueenCorner, ToCastle}) /\ [][Next]_vars

SpecPromotion ==
    InitFrom({ToPromotion, ToPromotionByKing, ToEnPassant, ToCastle}) /\ [][Next]_vars

SpecCaptured == InitFrom({ToBishopTaken, ToPawnTaken}) /\ [][Next]_vars

SpecMated == InitFrom({ToFoolsMate, ToKnightMate}) /\ [][Next]_vars

(* Positions late in a game: only Black's king (on bk), White's king (on  *)
(* wk) and White's queen (on wq) are left, both kings have moved, and the  *)
(* move that made the position has just been applied: Black is to move.    *)

EndgameIndices(bk, wk, wq) ==
    [i \in Squares |->
        IF i = bk THEN PIECE_KING + PIECE_BLACK
        ELSE IF i = wk THEN PIECE_KING + PIECE_WHITE
        ELSE IF i = wq THEN PIECE_QUEEN + PIECE_WHITE
        ELSE 0]

\* the board as perform_move left it
EndgameMade(bk, wk, wq) ==
    [InitialBoard EXCEPT !.indices = EndgameIndices(bk, wk, wq),
                         !.current_player = PIECE_BLACK,
                         !.castle_bits = 0,
                         !.num_white_captures = 14,
                         !.num_black_captures = 15,
                         !.move_count = 99]

\* the piece entities: the three pieces left stand on their squares, every
\* other piece was moved off the board (move_piece_offboard)
EndgamePieces(bk, wk, wq) ==
    [e \in 1..NumPieces |->
        [InitialPieces[e] EXCEPT !.board_position =
            IF InitialPieces[e].mask = PIECE_KING + PIECE_BLACK THEN bk
            ELSE IF InitialPieces[e].mask = PIECE_KING + PIECE_WHITE THEN wk
            ELSE IF InitialPieces[e].mask = PIECE_QUEEN + PIECE_WHITE THEN wq
            ELSE -1]]

\* Black's king on the corner of its back rank on file a, White's king and
\* queen on the squares c7 and c8 (file c is two files from file a), for
\* both file mappings a = 0 and a = 7
EndgamePositions ==
    { <<SQ(0,a), SQ(1,c), SQ(0,c)>> : <<a, c>> \in {<<0, 2>>, <<7, 5>>} }
    \cup { <<SQ(0,a), SQ(0,c), SQ(1,c)>> : <<a, c>> \in {<<0, 2>>, <<7, 5>>} }

InitEndgame ==
    /\ \E p \in EndgamePositions :
          /\ board = check_end_condition_reached(EndgameMade(p[1], p[2], p[3]))
          /\ pieces = EndgamePieces(p[1], p[2], p[3])
          /\ last = [op |-> "init", from |-> 0, to |-> 0, info |-> NoInfo,
                     made |-> EndgameMade(p[1], p[2], p[3])]
    /\ steps = 0

SpecEndgame == InitEndgame /\ [][Next]_vars

SpecCastleInCheck ==
    InitFrom({ToCastleOutOfCheck, ToCastleThroughAttack, ToCastle}) /\ [][Next]_vars

(* Positions late in a game with White to move: Black's king on row 1,     *)
(* file 1, White's king on row 6, file 5, and one more white piece of type *)
(* `kind` on sq.                                                           *)

GeometryKinds == {PIECE_KNIGHT, PIECE_BISHOP, PIECE_ROOK, PIECE_QUEEN}

GeometrySquares == {SQ(4,3), SQ(7,0), SQ(0,7), SQ(3,7), SQ(2,4), SQ(5,0)}

GeometryMade(kind, sq) ==
    [InitialBoard EXCEPT
        !.indices = [i \in Squares |->
                        IF i = SQ(1,1) THEN PIECE_KING + PIECE_BLACK
                        ELSE IF i = SQ(6,5) THEN PIECE_KING + PIECE_WHITE
                        ELSE IF i = sq THEN kind + PIECE_WHITE
                        ELSE 0],
        !.current_player = PIECE_WHITE,
        !.castle_bits = 0,
        !.num_white_captures = 14,
        !.num_black_captures = 15,
        !.move_count = 98]

\* the entities: the kings, the first white entity of type `kind`, every
\* other piece moved off the board
GeometryPieces(kind, sq) ==
    LET first == CHOOSE e \in 1..NumPieces :
                    /\ InitialPieces[e].mask = kind + PIECE_WHITE
                    /\ \A f \in 1..(e - 1) : InitialPieces[f].mask # kind + PIECE_WHITE
    IN [e \in 1..NumPieces |->
           [InitialPieces[e] EXCEPT !.board_position =
               IF InitialPieces[e].mask = PIECE_KING + PIECE_BLACK THEN SQ(1,1)
               ELSE IF InitialPieces[e].mask = PIECE_KING + PIECE_WHITE THEN SQ(6,5)
               ELSE IF e = first THEN sq
               ELSE -1]]

\* the king of the side that has just moved is not attacked
InitGeometry ==
    /\ \E kind \in GeometryKinds, sq \in GeometrySquares :
          /\ ~is_piece_attacked(GeometryMade(kind, sq), PIECE_KING + PIECE_BLACK)
          /\ board = check_end_condition_reached(GeometryMade(kind, sq))
          /\ pieces = GeometryPieces(kind, sq)
          /\ last = [op |-> "init", from |-> 0, to |-> 0, info |-> NoInfo,
                     made |-> GeometryMade(kind, sq)]
    /\ steps = 0

SpecGeometry == InitGeometry /\ [][Next]_vars

(* ------------------------------ properties ------------------------------ *)

\* a legal move of position b: pseudo-legal, and it leaves the king safe
Legal(b, from, to) ==
    is_legal_move(b, from, to) /\ ~is_checked_after_move(b, from, to).checked

\* the grid, the side to move, the castle bits, the en-passant square and
\* the move count of a and b are equal
SamePosition(a, b) ==
    /\ a.indices = b.indices
    /\ a.current_player = b.current_player
    /\ a.castle_bits = b.castle_bits
    /\ a.en_passant_pos = b.en_passant_pos
    /\ a.move_count = b.move_count

\* perform_move followed by revert_move restores b, for every legal move of b
RoundTrip(b) ==
    \A from \in Squares : b.indices[from] # 0 =>
        \A to \in Squares : Legal(b, from, to) =>
            LET pm == perform_move(b, from, to)
            IN SamePosition(revert_move(pm.board, from, to, pm.info), b)

\* the position is the one an applied move (or the start) has just produced
JustMoved == board.selected_piece = NoEntity

\* the side that made the last applied move
Mover == Opponent(board.current_player)

\* the type of the piece the last applied move moved
MovedType ==
    IF last.info.promotion # 0 THEN PIECE_PAWN ELSE TypeOf(last.made.indices[last.to])

\* C1: in every position reached by applied moves -- the board a move's
\* perform_move produces (last.made) and the board the handler leaves
\* (board) -- perform_move followed by revert_move restores the grid, the
\* side to move, the castle bits, the en-passant square and the move count,
\* for every legal (from, to).
C1_RoundTrip == JustMoved => (RoundTrip(last.made) /\ RoundTrip(board))

HasLegalMove(b) ==
    \E from \in Squares : b.indices[from] # 0 /\ \E to \in Squares : Legal(b, from, to)

MateOf(p) ==
    IF p = PIECE_WHITE THEN STATE_BLACK_WIN_BY_CHECKMATE ELSE STATE_WHITE_WIN_BY_CHECKMATE

\* C3: immediately after every applied move, with p the side to move,
\* game_state is "the opponent of p wins by checkmate" iff p has no legal
\* move and p's king is attacked, "draw by stalemate" iff p has no legal move
\* and p's king is not attacked, and "playing" iff p has a legal move.
C3_TerminalDetection ==
    (last.op = "move" /\ JustMoved) =>
        LET p == board.current_player
            none == ~HasLegalMove(board)
            chk == InCheck(board)
        IN /\ (board.game_state = MateOf(p)) <=> (none /\ chk)
           /\ (board.game_state = STATE_DRAW_BY_STALEMATE) <=> (none /\ ~chk)
           /\ (board.game_state = STATE_PLAYING) <=> ~none

\* C2: immediately after every applied move the king of the side that just
\* moved is not attacked: no square i has is_legal_move(i, king's square)
\* true for the new side to move.
C2_KingSafety ==
    last.op = "move" =>
        \A pos \in Squares : board.indices[pos] = PIECE_KING + Mover =>
            \A i \in Squares : ~is_legal_move(board, i, pos)

\* an applied move has just answered a check
C2_CheckAnswered ==
    /\ last.op = "move"
    /\ JustMoved
    /\ InCheck(revert_move(last.made, last.from, last.to, last.info))

\* the home corner of colour c on file f (0 or 7) of c's own back rank
HomeCorner(c, f) == SQ(IF c = PIECE_WHITE THEN 7 ELSE 0, f)

\* the castle bit is_legal_move consults for a two-square move of c's king
\* toward the corner on file f: bit c/4 + 1 when the king moves to a lower
\* index (file 0), bit c/4 + 0 otherwise (file 7)
OracleBit(c, f) == c \div 4 + (IF f = 0 THEN 1 ELSE 0)

\* C4: after an applied move of a rook off a home corner of its own back
\* rank, the castle bit the oracle consults for castling toward that corner
\* is clear, and the bit for castling toward the other corner is as it was
\* before the move.
C4_RookMoveRevokes ==
    last.op = "move" =>
        \A f \in {0, 7} :
            (/\ MovedType = PIECE_ROOK
             /\ last.from = HomeCorner(Mover, f)) =>
                /\ Bit(board.castle_bits, OracleBit(Mover, f)) = 0
                /\ Bit(board.castle_bits, OracleBit(Mover, 7 - f))
                       = Bit(last.info.last_castle_bits, OracleBit(Mover, 7 - f))

\* C5: in every reachable position and for every piece of the side to
\* move, update_legal_move_indices_for_piece changes nothing of the board
\* component but legal_move_indices (the handler sets the selection before).
C5_HighlightReadOnly ==
    JustMoved =>
        \A e \in 1..NumPieces : ColorOf(pieces[e].mask) = board.current_player =>
            LET selected == [board EXCEPT !.selected_piece = e]
                after == update_legal_move_indices_for_piece(selected, pieces[e])
            IN after = [selected EXCEPT !.legal_move_indices = after.legal_move_indices]

\* the highlight of a selected king contains a two-square king move
C5_CastleHighlighted ==
    /\ board.selected_piece # NoEntity
    /\ LET piece == pieces[board.selected_piece]
       IN /\ TypeOf(piece.mask) = PIECE_KING
          /\ \E k \in 0..63 :
                /\ board.legal_move_indices[k]
                /\ Abs((k % 8) + (k \div 8) * 16 - piece.board_position) = 2

\* C6: between two observations no castle bit goes from clear to set: the
\* castle_bits after every press are a bitwise subset of those before it.
C6_CastleBitsMonotone ==
    [][\A k \in 0..3 : Bit(board'.castle_bits, k) = 1 => Bit(board.castle_bits, k) = 1]_vars

\* an applied move has cleared a castle bit
C6_BitCleared ==
    /\ last.op = "move"
    /\ board.castle_bits # last.info.last_castle_bits

\* the corner perform_move pairs with bit s/4 + k of side s: file 0 for
\* k = 0, file 7 for k = 1, on the back rank of s
CornerOfBit(s, k) == HomeCorner(s, IF k = 0 THEN 0 ELSE 7)

\* C7: an applied move clears a castle bit of a side only when that side's
\* king moved, or a rook of that side moved off the corresponding corner of
\* the side's own back rank, or a rook of that side was captured on that
\* corner.
C7_CauseOfLoss ==
    last.op = "move" =>
        \A s \in {PIECE_WHITE, PIECE_BLACK}, k \in {0, 1} :
            (/\ Bit(last.info.last_castle_bits, s \div 4 + k) = 1
             /\ Bit(board.castle_bits, s \div 4 + k) = 0) =>
                \/ (s = Mover /\ MovedType = PIECE_KING)
                \/ (s = Mover /\ MovedType = PIECE_ROOK /\ last.from = CornerOfBit(s, k))
                \/ (/\ last.info.capture = PIECE_ROOK + s
                    /\ last.info.capture_pos = CornerOfBit(s, k))

CountOf(b, piece) == Cardinality({i \in Squares : b.indices[i] = piece})

\* C8: while game_state is "playing", and after every applied move, the
\* grid holds exactly one white king and exactly one black king; no applied
\* move captures a king.
C8_KingUniqueness ==
    /\ (board.game_state = STATE_PLAYING \/ last.op = "move") =>
            /\ CountOf(board, PIECE_KING + PIECE_WHITE) = 1
            /\ CountOf(board, PIECE_KING + PIECE_BLACK) = 1
    /\ last.op = "move" => TypeOf(last.info.capture) # PIECE_KING

\* an explored press has applied a capture and the game goes on
C8_CaptureApplied ==
    /\ steps > 0
    /\ last.op = "move"
    /\ JustMoved
    /\ last.info.capture # 0
    /\ board.game_state = STATE_PLAYING

\* the last applied move was a pawn's two-rank advance
TwoRankAdvance ==
    last.op = "move" /\ MovedType = PIECE_PAWN /\ Abs(last.from - last.to) = 32

\* C9: en_passant_pos is 0 or the on-board square holding a pawn of the
\* colour opposite to current_player that arrived there by a two-rank advance
\* in the last applied move; after an applied move that is no two-rank pawn
\* advance it is 0.
C9_EnPassantTarget ==
    LET ep == board.en_passant_pos
    IN /\ ep # 0 =>
            /\ ep \in Squares /\ ~OffBoard(ep)
            /\ board.indices[ep] = PIECE_PAWN + Opponent(board.current_player)
            /\ TwoRankAdvance
            /\ last.to = ep
       /\ (last.op = "move" /\ ~TwoRankAdvance) => ep = 0

\* an explored press has advanced a pawn two ranks and en_passant_pos names
\* its square
C9_TargetSet == steps > 0 /\ JustMoved /\ board.en_passant_pos # 0

\* the step applies a two-square king move
CastlingStep ==
    /\ last' # last
    /\ TypeOf(board.indices[last'.from]) = PIECE_KING
    /\ Abs(last'.from - last'.to) = 2

\* C10: after every applied two-square king move from `from` to `to` the
\* king stands on `to`, the mover's rook that stood on the corner on that
\* side (from - 3 or from + 4) stands on the square the king crossed, the
\* corner and the king's origin are empty, both castle bits of the mover are
\* clear, the opponent's bits are unchanged and no other cell changed.
C10_CastlingEffect ==
    [][CastlingStep =>
        LET from == last'.from
            to == last'.to
            m == board.current_player
            o == Opponent(m)
            corner == from + (IF from > to THEN -3 ELSE 4)
            crossed == from + (IF from > to THEN -1 ELSE 1)
        IN /\ board'.indices[to] = PIECE_KING + m
           /\ board.indices[corner] = PIECE_ROOK + m
           /\ board'.indices[crossed] = PIECE_ROOK + m
           /\ board'.indices[corner] = 0
           /\ board'.indices[from] = 0
           /\ Bit(board'.castle_bits, m \div 4) = 0
           /\ Bit(board'.castle_bits, m \div 4 + 1) = 0
           /\ \A k \in {0, 1} : Bit(board'.castle_bits, o \div 4 + k)
                                    = Bit(board.castle_bits, o \div 4 + k)
           /\ \A i \in Squares \ {from, to, corner, crossed} :
                  board'.indices[i] = board.indices[i]]_vars

\* the step applies a pawn's diagonal step onto an empty square
EnPassantStep ==
    /\ last' # last
    /\ TypeOf(IndexAt(board, last'.from)) = PIECE_PAWN
    /\ Abs(last'.from - last'.to) \in {15, 17}
    /\ board.indices[last'.to] = 0

\* C11: whenever an applied move is a pawn's diagonal step onto an empty
\* square, the cell emptied is the former en_passant_pos, the square beside
\* `from` on its rank and on the file of `to` (never `to` itself); it held a
\* pawn of the opponent, whose entity is taken off the board; the moving pawn
\* stands on `to`; en_passant_pos is 0 afterwards; the move is recorded as a
\* capture on the former en_passant_pos; and the move before it was the
\* opponent's two-rank advance onto that square.
C11_EnPassantEffect ==
    [][EnPassantStep =>
        LET from == last'.from
            to == last'.to
            ep == board.en_passant_pos
            m == board.current_player
            victim == PIECE_PAWN + Opponent(m)
        IN /\ ep # 0 /\ ep # to
           /\ RowOf(ep) = RowOf(from) /\ ep % 16 = to % 16
           /\ board.indices[ep] = victim
           /\ board'.indices[ep] = 0
           /\ board'.indices[to] = PIECE_PAWN + m
           /\ board'.indices[from] = 0
           /\ board'.en_passant_pos = 0
           /\ last'.info.move_type = MOVE_TYPE_CAPTURE
           /\ last'.info.capture_pos = ep
           /\ last'.info.capture = victim
           /\ \E e \in 1..NumPieces :
                 /\ pieces[e].board_position = ep
                 /\ pieces[e].mask = victim
                 /\ pieces'[e].board_position = -1
           /\ TwoRankAdvance
           /\ last.to = ep]_vars

\* an explored press has applied an en-passant capture
C11_EnPassantApplied ==
    /\ steps > 0
    /\ last.op = "move"
    /\ JustMoved
    /\ last.info.move_type = MOVE_TYPE_CAPTURE
    /\ last.info.capture_pos # last.to
    /\ board.indices[last.info.capture_pos] = 0

\* the step applies a move
AppliedStep == last' # last

\* C12: after every applied move in which a pawn lands on row 0x00 or 0x70
\* the destination holds a queen of the pawn's colour, the move record's
\* promotion field is PIECE_QUEEN and the pawn's entity carries the queen's
\* mask; in every other applied move the promotion field is 0; and every
\* other piece on the grid after the move has the code it had before: it is
\* the moved piece on the destination, it stands where it stood, or it is
\* the castling rook (the piece of the corner) on the square the king
\* crossed.
C12_PromotionLaw ==
    [][AppliedStep =>
        LET from == last'.from
            to == last'.to
            mover == IndexAt(board, from)
            lands == TypeOf(mover) = PIECE_PAWN /\ (to \div 16 = 0 \/ to \div 16 = 7)
            castles == TypeOf(mover) = PIECE_KING /\ Abs(from - to) = 2
            corner == from + (IF from > to THEN -3 ELSE 4)
            crossed == from + (IF from > to THEN -1 ELSE 1)
        IN /\ lands =>
                /\ board'.indices[to] = PIECE_QUEEN + ColorOf(mover)
                /\ last'.info.promotion = PIECE_QUEEN
                /\ pieces'[board.selected_piece] =
                       [mask |-> PIECE_QUEEN + ColorOf(mover), board_position |-> to]
           /\ ~lands =>
                /\ board'.indices[to] # 0 => board'.indices[to] = mover
                /\ last'.info.promotion = 0
                /\ pieces'[board.selected_piece].mask = pieces[board.selected_piece].mask
           /\ \A i \in Squares \ {to} : board'.indices[i] # 0 =>
                \/ board'.indices[i] = board.indices[i]
                \/ castles /\ i = crossed /\ board'.indices[i] = board.indices[corner]
           /\ \A e \in 1..NumPieces \ {board.selected_piece} :
                pieces'[e].mask = pieces[e].mask]_vars

\* the square of the selected piece
SelectedFrom == pieces[board.selected_piece].board_position

\* no piece is selected, or the selected piece has no legal move to `to`
NotLegalTarget(to) ==
    board.selected_piece = NoEntity \/ ~Legal(board, SelectedFrom, to)

\* C13: a press on a tile, or on a piece of the opponent while a piece is
\* selected, whose move (selected square -> target) is not legal, a press on
\* a tile with no selection and a press on a piece of the opponent with no
\* selection each leave the whole board component (and the pieces) as they
\* were.
C13_IllegalInputNoOp ==
    /\ \A x \in 0..7, z \in 0..7 :
          NotLegalTarget(x + z * 16) => TilePressed(World, x, z) = World
    /\ \A e \in 1..NumPieces :
          (/\ ColorOf(pieces[e].mask) # board.current_player
           /\ NotLegalTarget(CRem(pieces[e].board_position, 16)
                                + CDiv(pieces[e].board_position, 16) * 16)) =>
              PiecePressed(World, e) = World

\* a piece is selected that has a pseudo-legal move which leaves its king
\* attacked: pressing that target is rejected after perform_move/revert_move
C13_RejectedTarget ==
    /\ board.selected_piece # NoEntity
    /\ \E to \in Squares :
          /\ ~OffBoard(to)
          /\ is_legal_move(board, SelectedFrom, to)
          /\ is_checked_after_move(board, SelectedFrom, to).checked

\* C14: in every applied move the piece on the source square has the colour
\* of current_player (and so has the selected entity), afterwards
\* current_player is the other colour and move_count is greater by exactly
\* one; every press that applies no move (a selection with its highlight, a
\* rejected target) leaves current_player and move_count as they were.
C14_TurnAlternation ==
    [][/\ AppliedStep =>
            /\ IndexAt(board, last'.from) # 0
            /\ ColorOf(IndexAt(board, last'.from)) = board.current_player
            /\ ColorOf(pieces[board.selected_piece].mask) = board.current_player
            /\ board'.current_player = Opponent(board.current_player)
            /\ board'.move_count = board.move_count + 1
       /\ ~AppliedStep =>
            /\ board'.current_player = board.current_player
            /\ board'.move_count = board.move_count]_vars

\* explored presses have selected a black piece and applied its move: White
\* is to move again, one move later than the last board perform_move saw
C14_BlackMoved ==
    /\ steps > 1
    /\ last.op = "move"
    /\ JustMoved
    /\ board.current_player = PIECE_WHITE
    /\ ColorOf(last.made.indices[last.to]) = PIECE_BLACK
    /\ board.move_count = last.made.move_count

\* every off-board cell of b is empty
SentinelsEmpty(b) == \A i \in Squares : OffBoard(i) => b.indices[i] = 0

\* C15: in every state observable between presses every cell i of 0..127
\* with (i & 0x88) != 0 holds 0, and so it does on the board every applied
\* move's perform_move produced (with its castling rook relocation or its
\* en-passant removal).
C15_SentinelPurity == SentinelsEmpty(board) /\ SentinelsEmpty(last.made)

\* an explored press has applied a castling move: the rook was relocated
C15_RookRelocated ==
    /\ steps > 0
    /\ last.op = "move"
    /\ JustMoved
    /\ last.info.move_type = MOVE_TYPE_CASTLE
    /\ board.indices[last.info.rook_pos] = 0

\* f2-f3, e7-e5, g2-g4, d8-h4 played through the handler from the initial
\* position
FoolsMateGame == Replay(InitialWorld, ToMate \o << Mv(0,4,4,0) >>)

\* C16: the four moves 0x62->0x52, 0x13->0x33, 0x61->0x41, 0x04->0x40,
\* selected and targeted from the initial position, are all accepted, and
\* after the fourth game_state is "black wins by checkmate": for the game
\* played as a whole from the initial position, and for the machine when
\* its last applied move, 0x04->0x40 as the fourth move, made the position
\* of that game.
C16_FoolsMate ==
    /\ (steps = 0 /\ board = InitialBoard) =>
           \E g \in {FoolsMateGame} :
               /\ g.board.move_count = 4
               /\ g.board.indices[SQ(4,0)] = PIECE_QUEEN + PIECE_BLACK
               /\ g.board.game_state = STATE_BLACK_WIN_BY_CHECKMATE
    /\ (/\ last.op = "move" /\ board.move_count = 4
        /\ last.from = SQ(0,4) /\ last.to = SQ(4,0)
        /\ last.made = FoolsMateGame.last.made) =>
           board.game_state = STATE_BLACK_WIN_BY_CHECKMATE

\* explored presses have selected the queen on 0x04 and applied 0x04->0x40
\* in the position after the first three moves
C16_QueenOnH4 ==
    /\ steps > 0
    /\ last.op = "move"
    /\ last.from = SQ(0,4) /\ last.to = SQ(4,0)
    /\ board.move_count = 4
    /\ last.made = FoolsMateGame.last.made

\* the legal moves of position b
LegalMoves(b) ==
    {m \in Squares \X Squares : b.indices[m[1]] # 0 /\ Legal(b, m[1], m[2])}

\* Black is to move on the grid with Black's king on bk, White's king on wk
\* and White's queen on wq
EndgameOnBoard(bk, wk, wq) ==
    board.indices = EndgameIndices(bk, wk, wq) /\ board.current_player = PIECE_BLACK

\* C17 as stated: with Black's king on a8, White's king on c7 and White's
\* queen on c8, Black to move, Black has no legal move, Black's king is not
\* attacked and terminal detection yields "draw by stalemate".
C17_StalemateAsStated ==
    \A <<a, c>> \in {<<0, 2>>, <<7, 5>>} :
        EndgameOnBoard(SQ(0,a), SQ(1,c), SQ(0,c)) =>
            /\ LegalMoves(board) = {}
            /\ ~InCheck(board)
            /\ check_end_condition_reached(board).game_state = STATE_DRAW_BY_STALEMATE

\* C17, amended: in that position the queen on c8 attacks a8 along the back
\* rank: Black's king is attacked, Black's only legal move is a8->a7 and
\* terminal detection yields "playing". With White's king on c8 and the
\* queen on c7 instead, Black has no legal move, its king is not attacked
\* and terminal detection yields "draw by stalemate".
C17_StalemateConstruction ==
    \A <<a, c>> \in {<<0, 2>>, <<7, 5>>} :
        /\ EndgameOnBoard(SQ(0,a), SQ(1,c), SQ(0,c)) =>
              /\ LegalMoves(board) = {<<SQ(0,a), SQ(1,a)>>}
              /\ InCheck(board)
              /\ check_end_condition_reached(board).game_state = STATE_PLAYING
              /\ board.game_state = STATE_PLAYING
        /\ EndgameOnBoard(SQ(0,a), SQ(0,c), SQ(1,c)) =>
              /\ LegalMoves(board) = {}
              /\ ~InCheck(board)
              /\ check_end_condition_reached(board).game_state = STATE_DRAW_BY_STALEMATE
              /\ board.game_state = STATE_DRAW_BY_STALEMATE

\* Black's king on a8 is selected with White's king on c7 and the queen on
\* c8, and the highlight shows a legal move
C17_KingSelected ==
    /\ \E <<a, c>> \in {<<0, 2>>, <<7, 5>>} : EndgameOnBoard(SQ(0,a), SQ(1,c), SQ(0,c))
    /\ board.selected_piece # NoEntity
    /\ pieces[board.selected_piece].mask = PIECE_KING + PIECE_BLACK
    /\ \E k \in 0..63 : board.legal_move_indices[k]

\* on board b every two-square king move is_legal_move accepts has only
\* empty squares strictly between the king and the corner its rook comes
\* from (from - 3 or from + 4)
CastlingPathClear(b) ==
    \A from \in Squares : TypeOf(b.indices[from]) = PIECE_KING =>
        \A to \in {from - 2, from + 2} \cap Squares : is_legal_move(b, from, to) =>
            LET corner == from + (IF from > to THEN -3 ELSE 4)
            IN \A i \in Squares :
                  ((corner < i /\ i < from) \/ (from < i /\ i < corner)) => b.indices[i] = 0

\* C18: whenever is_legal_move accepts a two-square king move -- on the
\* board an applied move's perform_move produced, which is the board
\* check_end_condition_reached asks it about, and on the board the handler
\* leaves -- every square strictly between the king's square and the corner
\* the castling rook comes from is empty, the rook's landing square included.
C18_CastlingPath == CastlingPathClear(last.made) /\ CastlingPathClear(board)

\* the on-board squares
OnBoard == {i \in Squares : ~OffBoard(i)}

\* file and rank deltas of a pair of on-board squares
FileDelta(from, to) == (to % 16) - (from % 16)
RankDelta(from, to) == (to \div 16) - (from \div 16)

Sign(x) == IF x > 0 THEN 1 ELSE IF x < 0 THEN -1 ELSE 0

Max(a, b) == IF a > b THEN a ELSE b

\* the squares strictly between from and to, which share a rank, a file or
\* a diagonal
Between(from, to) ==
    LET df == FileDelta(from, to)
        dr == RankDelta(from, to)
    IN {from + k * (16 * Sign(dr) + Sign(df)) : k \in 1..(Max(Abs(df), Abs(dr)) - 1)}

\* the reference geometry of a piece of type `kind` on file/rank deltas
Reference(b, kind, from, to) ==
    LET df == Abs(FileDelta(from, to))
        dr == Abs(RankDelta(from, to))
        diagonal == df = dr /\ df > 0
        straight == (df = 0) # (dr = 0)
        clear == \A i \in Between(from, to) : b.indices[i] = 0
    IN CASE kind = PIECE_KNIGHT -> {df, dr} = {1, 2}
         [] kind = PIECE_KING -> Max(df, dr) = 1
         [] kind = PIECE_BISHOP -> diagonal /\ clear
         [] kind = PIECE_ROOK -> straight /\ clear
         [] kind = PIECE_QUEEN -> (diagonal \/ straight) /\ clear

\* is_legal_move agrees with the reference on board b for every knight,
\* bishop, rook, queen and king of the side to move and every on-board
\* target that holds no piece of that side (a king's two-square move along
\* its rank set aside)
GeometryAgrees(b) ==
    \A from \in OnBoard :
        LET piece == b.indices[from]
            kind == TypeOf(piece)
        IN (/\ piece # 0
            /\ ColorOf(piece) = b.current_player
            /\ kind # PIECE_PAWN) =>
               \A to \in OnBoard :
                   (/\ b.indices[to] = 0 \/ ColorOf(b.indices[to]) # b.current_player
                    /\ ~(kind = PIECE_KING /\ RankDelta(from, to) = 0
                                            /\ Abs(FileDelta(from, to)) = 2)) =>
                       (is_legal_move(b, from, to) <=> Reference(b, kind, from, to))

\* C19: on every board, for every on-board pair (from, to) with a knight,
\* bishop, rook, queen or king of the side to move on `from` and no piece of
\* that side on `to`, is_legal_move (castling set aside) is true exactly when
\* the reference on file/rank deltas is: knight {|df|,|dr|} = {1,2}, king
\* max(|df|,|dr|) = 1, bishop |df| = |dr| > 0, rook exactly one of df, dr
\* zero, queen either, and for bishop, rook and queen every square strictly
\* between is empty.
C19_PieceGeometry == GeometryAgrees(board) /\ GeometryAgrees(last.made)

\* a bishop, rook or queen of the side to move has a square it would reach
\* on an empty board and cannot reach because a piece stands in between
C19_SlideBlocked ==
    \E from \in OnBoard, to \in OnBoard :
        /\ ColorOf(board.indices[from]) = board.current_player
        /\ Slides(board.indices[from])
        /\ board.indices[to] = 0
        /\ Reference([board EXCEPT !.indices = [i \in Squares |-> 0]],
                     TypeOf(board.indices[from]), from, to)
        /\ ~is_legal_move(board, from, to)
        /\ steps > 0

\* C20: when a king is selected, every pseudo-legal two-square move of it
\* after which the king is not attacked on its destination is applied by
\* the press on that destination, as a castling move -- also when the king
\* is attacked on its origin before the move and when the square it crosses
\* is attacked.
C20_CastlingFilter ==
    (board.selected_piece # NoEntity /\ SelectedFrom \in Squares) =>
        \A to \in {SelectedFrom - 2, SelectedFrom + 2} \cap OnBoard :
            (/\ TypeOf(board.indices[SelectedFrom]) = PIECE_KING
             /\ is_legal_move(board, SelectedFrom, to)
             /\ ~is_piece_attacked(perform_move(board, SelectedFrom, to).board,
                                   PIECE_KING + board.current_player)) =>
                \E w \in {TilePressed(World, to % 16, to \div 16)} :
                    /\ w.last.op = "move"
                    /\ w.last.from = SelectedFrom /\ w.last.to = to
                    /\ w.last.info.move_type = MOVE_TYPE_CASTLE
                    /\ w.board.move_count = board.move_count + 1
                    /\ w.board.indices[to] = PIECE_KING + board.current_player

\* the side to move has its king selected and attacked, and a two-square
\* move of that king is pseudo-legal with a destination that is not attacked
C20_CastleOutOfCheck ==
    /\ board.selected_piece # NoEntity
    /\ SelectedFrom \in Squares
    /\ TypeOf(board.indices[SelectedFrom]) = PIECE_KING
    /\ InCheck(board)
    /\ \E to \in {SelectedFrom - 2, SelectedFrom + 2} \cap OnBoard :
          /\ is_legal_move(board, SelectedFrom, to)
          /\ ~is_piece_attacked(perform_move(board, SelectedFrom, to).board,
                                PIECE_KING + board.current_player)

\* no entry of legal_move_indices is set
NoHighlight(b) == \A k \in 0..63 : ~b.legal_move_indices[k]

\* the entries of legal_move_indices are those of the squares the selected
\* piece has a legal move to
HighlightIsLegal ==
    \A k \in 0..63 :
        board.legal_move_indices[k]
            <=> Legal(board, SelectedFrom, (k % 8) + (k \div 8) * 16)

\* C21: in every state observable between presses, if no piece is selected
\* all 64 entries of legal_move_indices are false, and if a piece is
\* selected, legal_move_indices[file + 8 * rank] is true exactly for the
\* squares the selected piece has a legal move to in the current position;
\* after every applied move no piece is selected and all 64 entries are
\* false.
C21_HighlightConsistency ==
    /\ [](IF board.selected_piece = NoEntity THEN NoHighlight(board) ELSE HighlightIsLegal)
    /\ [][AppliedStep => (board'.selected_piece = NoEntity /\ NoHighlight(board'))]_vars

\* an explored press has selected a piece that has legal moves, and they
\* are highlighted
C21_MovesHighlighted ==
    /\ steps > 0
    /\ board.selected_piece # NoEntity
    /\ \E k \in 0..63 :
          /\ board.legal_move_indices[k]
          /\ Legal(board, SelectedFrom, (k % 8) + (k \div 8) * 16)

(* --------------------------- piece conservation ------------------------- *)

\* the number of pieces of colour c on the 64 cells of the grid
OnGrid(b, c) ==
    Cardinality({sq \in OnBoard : b.indices[sq] # 0 /\ ColorOf(b.indices[sq]) = c})

\* C22: in every reachable state the white pieces on the grid plus
\* num_white_captures are 16 and the black pieces on the grid plus
\* num_black_captures are 16; a step that takes a piece of a colour off the
\* grid is an applied capture that takes exactly one and raises that colour's
\* counter by exactly one.
C22_PieceConservation ==
    /\ [](/\ OnGrid(board, PIECE_WHITE) + board.num_white_captures = 16
          /\ OnGrid(board, PIECE_BLACK) + board.num_black_captures = 16)
    /\ [][/\ OnGrid(board', PIECE_WHITE) # OnGrid(board, PIECE_WHITE)
             => /\ AppliedStep
                /\ last'.info.move_type = MOVE_TYPE_CAPTURE
                /\ OnGrid(board', PIECE_WHITE) = OnGrid(board, PIECE_WHITE) - 1
                /\ board'.num_white_captures = board.num_white_captures + 1
          /\ OnGrid(board', PIECE_BLACK) # OnGrid(board, PIECE_BLACK)
             => /\ AppliedStep
                /\ last'.info.move_type = MOVE_TYPE_CAPTURE
                /\ OnGrid(board', PIECE_BLACK) = OnGrid(board, PIECE_BLACK) - 1
                /\ board'.num_black_captures = board.num_black_captures + 1]_vars

(* ------------------------ the selection is on the board ----------------- *)

\* C23: whenever a piece is selected, its board_position is an on-board square
\* and the grid cell there holds the piece's code; in particular no captured
\* piece (board_position -1) is selected, so none is the source of the
\* legality queries the selection makes.
C23_SelectedOnBoard ==
    board.selected_piece # NoEntity
        => /\ SelectedFrom \in OnBoard
           /\ board.indices[SelectedFrom] = pieces[board.selected_piece].mask

(* --------------------------- terminal positions ------------------------- *)

\* C24: once game_state is a checkmate or the stalemate, no press applies a
\* move, and no press changes game_state, current_player, move_count,
\* castle_bits, en_passant_pos or the grid.
C24_TerminalAbsorbing ==
    [][board.game_state # STATE_PLAYING
          => /\ ~AppliedStep
             /\ board'.game_state = board.game_state
             /\ board'.current_player = board.current_player
             /\ board'.move_count = board.move_count
             /\ board'.castle_bits = board.castle_bits
             /\ board'.en_passant_pos = board.en_passant_pos
             /\ board'.indices = board.indices]_vars

(* ----------------------------- the castling rook ------------------------ *)

\* C25: whenever is_legal_move accepts a two-square move of the king of the
\* side to move, the corner on that side (from - 3 or from + 4) holds a rook
\* of the mover's colour, and the piece standing there is the one that began
\* the game on that square: not a queen, and not another rook.
C25_CastlingRook ==
    \A from \in OnBoard : \A to \in {from - 2, from + 2} :
        (/\ board.indices[from] = PIECE_KING + board.current_player
         /\ is_legal_move(board, from, to))
            => LET corner == from + (IF from > to THEN -3 ELSE 4)
               IN /\ board.indices[corner] = PIECE_ROOK + board.current_player
                  /\ \E e \in 1..NumPieces :
                        /\ pieces[e].board_position = corner
                        /\ pieces[e].mask = PIECE_ROOK + board.current_player
                        /\ InitialPieces[e].board_position = corner
====
